---- MODULE Spec2Model ----
\* A model of src/src/vm/perfmap.cpp: the process-wide live perf map
\* (PerfMap, s_Current) and the offline native image perf map
\* (NativeImagePerfMap), with the map files as sequences of text tokens.
EXTENDS Integers, Sequences, FiniteSets, TLC

\* ------------------------------------------------------------------ bounds
\* Public entry point calls made in one run.
MaxCalls == 5
\* PerfMap instances constructed by Initialize in one run.
MaxInst == 2
\* Threads that may be inside LogStubs at the same time.
NThreads == 2
\* Methods in the method table of a module handed to LogDataForModule.
MaxMethods == 2

\* ------------------------------------------------------------ value domains
NULL == "null"
\* An indeterminate pointer: a member the constructor returned without assigning.
GARBAGE == "garbage"
OPEN == "open"
OBJ == "obj"

Threads == 1 .. NThreads
InstIds == 1 .. MaxInst

\* Code addresses and sizes of the JIT-compiled methods and stubs (0x1000, 0x20).
CodeAddrs == {4096}
CodeSizes == {32}
Methods == {"M.F()"}
\* What PrepareCodeConfig::GetJitOptimizationTierStr returns.
TierStrs == {NULL, "Tier1"}
StubTypes == {NULL, "DelegateStub"}
StubOwners == {NULL, "MyClass"}
\* Loaded images; "bad" is one whose MVID StringFromGUID2 cannot format.
Images == {"img", "bad"}

\* ---------------------------------------------------------------- formatting
HexDigits == <<"0", "1", "2", "3", "4", "5", "6", "7", "8", "9", "a", "b", "c", "d", "e", "f">>

RECURSIVE Hex(_)
\* printf "%x": hexadecimal, lower case, no prefix, no padding.
Hex(n) == IF n < 16 THEN <<HexDigits[n + 1]>>
          ELSE Hex(n \div 16) \o <<HexDigits[(n % 16) + 1]>>

RECURSIVE Dec(_)
\* printf "%d" of a non-negative value.
Dec(n) == IF n < 10 THEN <<HexDigits[n + 1]>>
          ELSE Dec(n \div 10) \o <<HexDigits[(n % 10) + 1]>>

RECURSIVE ZeroPad(_, _)
\* The "08" of "%08x": pad on the left with zeros to the width.
ZeroPad(s, width) == IF Len(s) >= width THEN s ELSE ZeroPad(<<"0">> \o s, width)

\* printf "%p" as SString::Printf renders it: the pointer in hexadecimal, no
\* prefix (0x1000 is printed as 1000).
FmtPointer(addr) == Hex(addr)

\* FMT_CODE_ADDR: "%08x" under CROSSGEN_COMPILE, "%p" otherwise.
FmtCodeAddr(crossgen, addr) == IF crossgen THEN ZeroPad(Hex(addr), 8) ELSE FmtPointer(addr)

\* MethodLine with the size printed by "%d" in place of "%x".
MethodLineDecimalSize(crossgen, pCode, codeSize, sig, optimizationTier, showTiers) ==
    FmtCodeAddr(crossgen, pCode) \o <<" ">> \o Dec(codeSize) \o <<" ", sig>>
        \o (IF optimizationTier # NULL /\ showTiers
            THEN <<"[", optimizationTier, "]", "\n">>
            ELSE <<"\n">>)

\* MethodLine with the tier appended as "[%s]", the newline forgotten.
MethodLineTierWithoutNewline(crossgen, pCode, codeSize, sig, optimizationTier, showTiers) ==
    FmtCodeAddr(crossgen, pCode) \o <<" ">> \o Hex(codeSize) \o <<" ", sig>>
        \o (IF optimizationTier # NULL /\ showTiers
            THEN <<"[", optimizationTier, "]">>
            ELSE <<"\n">>)

\* The line LogMethod builds: Printf(FMT_CODE_ADDR " %x %s"), then "[%s]\n" or "\n".
MethodLine(crossgen, pCode, codeSize, sig, optimizationTier, showTiers) ==
    FmtCodeAddr(crossgen, pCode) \o <<" ">> \o Hex(codeSize) \o <<" ", sig>>
        \o (IF optimizationTier # NULL /\ showTiers
            THEN <<"[", optimizationTier, "]", "\n">>
            ELSE <<"\n">>)

\* printf "%s" of a string argument; a null argument is printed as "(null)".
FmtStr(s) == IF s = NULL THEN "(null)" ELSE s

\* StubLine with the newline left out of the format, for a Write of its own.
StubLineWithoutNewline(pCode, codeSize, n, stubType, stubOwner) ==
    FmtCodeAddr(FALSE, pCode) \o <<" ">> \o Hex(codeSize) \o <<" ", "stub<">> \o Dec(n)
        \o <<">", " ", FmtStr(stubType), "<", FmtStr(stubOwner), ">">>

\* The line LogStubs builds: Printf(FMT_CODE_ADDR " %x stub<%d> %s<%s>\n").
StubLine(pCode, codeSize, n, stubType, stubOwner) ==
    FmtCodeAddr(FALSE, pCode) \o <<" ">> \o Hex(codeSize) \o <<" ", "stub<">> \o Dec(n)
        \o <<">", " ", FmtStr(stubType), "<", FmtStr(stubOwner), ">", "\n">>

\* Number of complete (newline-terminated) lines of a file.
Lines(file) == Cardinality({i \in 1 .. Len(file) : file[i] = "\n"})

\* --------------------------------------------------------------------- state
VARIABLES
    s_Current,                \* PerfMap::s_Current: an instance id, 0 for nullptr
    s_ShowOptimizationTiers,  \* PerfMap::s_ShowOptimizationTiers
    heap,                     \* the PerfMap objects made by Initialize, by id
    nInst,                    \* PerfMap objects constructed so far
    mapFile,                  \* content of <temp>perf-<pid>.map, as tokens
    perfInfoLog,              \* images handed to PerfInfo::LogImage
    th,                       \* per thread: position and locals inside LogStubs
    ni,                       \* the NativeImagePerfMap object of an offline run
    niFile,                   \* content of the native image map file, as tokens
    escaped,                  \* an exception left a public entry point
    crashed,                  \* the process faulted on an indeterminate pointer
    lastOp,                   \* the entry point (or WriteLine) the last step belonged to
    nCalls,                   \* entry point calls made so far
    hist                      \* history kept for the properties

vars == <<s_Current, s_ShowOptimizationTiers, heap, nInst, mapFile, perfInfoLog, th,
          ni, niFile, escaped, crashed, lastOp, nCalls, hist>>

\* No object: a slot of the heap that holds no PerfMap.
NoInst == [alive |-> FALSE, m_FileStream |-> NULL, m_PerfInfo |-> NULL,
           m_ErrorEncountered |-> FALSE, m_StubsMapped |-> 0, setup |-> "none"]

\* A thread outside LogStubs.
IdleTh == [pc |-> "idle", inst |-> 0, reg |-> 0, stubType |-> NULL, stubOwner |-> NULL,
           argType |-> NULL, argOwner |-> NULL, pCode |-> 0, codeSize |-> 0,
           line |-> <<>>, entryErr |-> FALSE]

AllIdle == \A t \in Threads : th[t].pc = "idle"

\* History: what the runs have done, read only by the properties.
\*   jitCalls   LogJITCompiledMethod calls since s_Current was constructed
\*   jitOnly    no other entry point was called since s_Current was constructed
\*   abandoned  one of those calls was abandoned on a swallowed exception
\*   allocated  <<instance, value>> of every ++m_StubsMapped handed to Printf, in order
\*   overlapped two LogStubs calls were in flight at the same time
\*   destroyed  Destroy has released an instance
\*   call       the last LogDataForModule call: its module, and which of its
\*              LogMethod calls failed, and how
NoHist == [jitCalls |-> 0, jitOnly |-> FALSE, abandoned |-> FALSE,
           allocated |-> <<>>, overlapped |-> FALSE, destroyed |-> FALSE,
           call |-> [pModule |-> [r2r |-> FALSE, base |-> 0, methods |-> <<>>],
                     faultAt |-> 0, faultHow |-> "full"]]

\* The state after the static initializers of perfmap.cpp.
InitLive ==
    /\ s_Current = 0
    /\ s_ShowOptimizationTiers = FALSE
    /\ heap = [i \in InstIds |-> NoInst]
    /\ nInst = 0
    /\ mapFile = <<>>
    /\ perfInfoLog = <<>>
    /\ th = [t \in Threads |-> IdleTh]
    /\ escaped = FALSE
    /\ crashed = FALSE
    /\ lastOp = "none"
    /\ nCalls = 0
    /\ hist = NoHist

\* ------------------------------------------------------------- PerfMap members
\* How a call that reaches the EX_TRY of LogMethod / WriteLine goes:
\*   full      Write took every byte of the line
\*   short     Write took all but the last byte (outCount = inCount - 1)
\*   sigthrow  GetFullMethodInfo or Printf threw
\*   ansithrow GetANSI or Write threw
WriteHows == {"full", "short", "ansithrow"}
LogHows == WriteHows \cup {"sigthrow"}

\* outCount, the bytes Write reports written.
OutCount(line, how) == IF how = "full" THEN Len(line) ELSE Len(line) - 1

\* WriteLine with m_ErrorEncountered = (inCount != outCount) in place of the
\* one-way assignment under the if.
WriteLineLatchFollowsLastWrite(m, line, how) ==
    IF m.obj.m_FileStream # OPEN
    THEN IF how = "ansithrow" THEN m ELSE [m EXCEPT !.crashed = TRUE]
    ELSE IF how = "ansithrow" THEN m
    ELSE [m EXCEPT !.file = @ \o SubSeq(line, 1, OutCount(line, how)),
                   !.obj.m_ErrorEncountered = OutCount(line, how) # Len(line)]

\* PerfMap::WriteLine on m = [obj, file, crashed]. The stream is dereferenced
\* unchecked: a stream that is not an open CFileStream faults, unless the fault
\* is raised as an exception, which the EX_CATCH swallows.
WriteLine(m, line, how) ==
    IF m.obj.m_FileStream # OPEN
    THEN IF how = "ansithrow" THEN m ELSE [m EXCEPT !.crashed = TRUE]
    ELSE IF how = "ansithrow" THEN m
    ELSE [m EXCEPT !.file = @ \o SubSeq(line, 1, OutCount(line, how)),
                   !.obj.m_ErrorEncountered =
                       IF OutCount(line, how) # Len(line) THEN TRUE ELSE @]

\* PerfMap::LogMethod.
LogMethod(m, crossgen, showTiers, sig, pCode, codeSize, optimizationTier, how) ==
    IF m.obj.m_FileStream = NULL \/ m.obj.m_ErrorEncountered THEN m
    ELSE IF how = "sigthrow" THEN m
    ELSE WriteLine(m, MethodLine(crossgen, pCode, codeSize, sig, optimizationTier, showTiers), how)

\* PerfMap::GetNativeImageSignature: the MVID as text, or "" when it cannot be formatted.
GetNativeImageSignature(pFile) == IF pFile = "bad" THEN "" ELSE "{mvid}"

\* ------------------------------------------------------------- live map: setup
\* How the constructor PerfMap(int pid) goes:
\*   ok            the file is open and the PerfInfo is constructed
\*   tempfail      GetTempPathW returned 0
\*   printfthrow   path.Printf threw
\*   openfail      new (nothrow) returned null or OpenForWrite failed
\*   perfinfothrow new PerfInfo(pid) threw
CtorHows == {"ok", "tempfail", "printfthrow", "openfail", "perfinfothrow"}

\* The values a member can hold that no constructor statement assigned.
Indeterminate == {NULL, GARBAGE}

\* PerfMap::PerfMap(int pid): the object it leaves behind when it returns.
\* On tempfail it returns before m_FileStream and m_PerfInfo are assigned.
PerfMapCtor(how, u1, u2) ==
    [alive |-> TRUE,
     m_FileStream |-> CASE how = "ok" -> OPEN
                        [] how = "tempfail" -> u1
                        [] OTHER -> NULL,
     m_PerfInfo |-> IF how = "tempfail" THEN u2 ELSE OBJ,
     m_ErrorEncountered |-> FALSE,
     m_StubsMapped |-> 0,
     setup |-> how]

\* One more entry point call. A run ends where the process faults or an
\* exception leaves an entry point.
Bump(op) ==
    /\ nCalls < MaxCalls
    /\ ~crashed
    /\ ~escaped
    /\ nCalls' = nCalls + 1
    /\ lastOp' = op

\* PerfMap::Initialize with PerfMapEnabled off: nothing happens.
InitializeDisabled ==
    /\ AllIdle
    /\ Bump("Initialize")
    /\ hist' = [hist EXCEPT !.jitOnly = FALSE]
    /\ UNCHANGED <<s_Current, s_ShowOptimizationTiers, heap, nInst, mapFile, perfInfoLog,
                   th, ni, niFile, escaped, crashed>>

\* PerfMap::Initialize with PerfMapEnabled on, the constructor throwing: the
\* exception leaves Initialize, s_Current is not assigned, and a stream that
\* OpenFile had opened (and so truncated the file) is never released.
InitializeThrows(how) ==
    /\ AllIdle
    /\ how \in {"printfthrow", "perfinfothrow"}
    /\ Bump("Initialize")
    /\ escaped' = TRUE
    /\ mapFile' = IF how = "perfinfothrow" THEN <<>> ELSE mapFile
    /\ hist' = [hist EXCEPT !.jitOnly = FALSE]
    /\ UNCHANGED <<s_Current, s_ShowOptimizationTiers, heap, nInst, perfInfoLog,
                   th, ni, niFile, crashed>>

\* PerfMap::Initialize with PerfMapEnabled on: s_Current = new PerfMap(pid),
\* whatever s_Current held, then the show-tiers flag is set if configured.
InitializeEnabled(showTiers, how, u1, u2) ==
    /\ AllIdle
    /\ how \in {"ok", "tempfail", "openfail"}
    /\ nInst < MaxInst
    /\ Bump("Initialize")
    /\ nInst' = nInst + 1
    /\ heap' = [heap EXCEPT ![nInst + 1] = PerfMapCtor(how, u1, u2)]
    /\ s_Current' = nInst + 1
    /\ mapFile' = IF how = "ok" THEN <<>> ELSE mapFile
    /\ s_ShowOptimizationTiers' = IF showTiers THEN TRUE ELSE s_ShowOptimizationTiers
    /\ hist' = [hist EXCEPT !.jitCalls = 0, !.jitOnly = TRUE, !.abandoned = FALSE]
    /\ UNCHANGED <<perfInfoLog, th, ni, niFile, escaped, crashed>>

\* Destroy with the delete kept and s_Current = nullptr forgotten.
DestroyKeepsCurrent(ub) ==
    /\ AllIdle
    /\ Bump("Destroy")
    /\ IF s_Current = 0
       THEN UNCHANGED <<heap, crashed>>
       ELSE IF ub = "fault" /\ GARBAGE \in {heap[s_Current].m_FileStream, heap[s_Current].m_PerfInfo}
       THEN crashed' = TRUE /\ UNCHANGED heap
       ELSE heap' = [heap EXCEPT ![s_Current] = NoInst] /\ UNCHANGED crashed
    /\ hist' = [hist EXCEPT !.jitOnly = FALSE, !.destroyed = TRUE]
    /\ UNCHANGED <<s_Current, s_ShowOptimizationTiers, nInst, mapFile, perfInfoLog, th,
                   ni, niFile, escaped>>

\* PerfMap::Destroy with ~PerfMap: delete of an indeterminate pointer either
\* faults or passes unnoticed.
Destroy(ub) ==
    /\ AllIdle
    /\ Bump("Destroy")
    /\ IF s_Current = 0
       THEN UNCHANGED <<s_Current, heap, crashed>> /\ hist' = [hist EXCEPT !.jitOnly = FALSE]
       ELSE IF ub = "fault" /\ GARBAGE \in {heap[s_Current].m_FileStream, heap[s_Current].m_PerfInfo}
       THEN crashed' = TRUE /\ UNCHANGED <<s_Current, heap>>
                /\ hist' = [hist EXCEPT !.jitOnly = FALSE]
       ELSE /\ heap' = [heap EXCEPT ![s_Current] = NoInst]
            /\ s_Current' = 0
            /\ hist' = [hist EXCEPT !.jitOnly = FALSE, !.destroyed = TRUE]
            /\ UNCHANGED crashed
    /\ UNCHANGED <<s_ShowOptimizationTiers, nInst, mapFile, perfInfoLog, th, ni, niFile, escaped>>

\* ------------------------------------------------------------ live map: events
\* The map state WriteLine and LogMethod work on, for the live instance i.
LiveMap(i) == [obj |-> heap[i], file |-> mapFile, crashed |-> crashed]

\* PerfMap::LogJITCompiledMethod.
LogJITCompiledMethod(pMethod, pCode, codeSize, tierStr, how) ==
    /\ Bump("LogJITCompiledMethod")
    /\ IF s_Current = 0
       THEN UNCHANGED <<heap, mapFile, crashed, hist>>
       ELSE LET optimizationTier == IF s_ShowOptimizationTiers THEN tierStr ELSE NULL
                m == LogMethod(LiveMap(s_Current), FALSE, s_ShowOptimizationTiers, pMethod,
                               pCode, codeSize, optimizationTier, how)
                entered == heap[s_Current].m_FileStream # NULL
                               /\ ~heap[s_Current].m_ErrorEncountered
            IN /\ heap' = [heap EXCEPT ![s_Current] = m.obj]
               /\ mapFile' = m.file
               /\ crashed' = m.crashed
               /\ hist' = [hist EXCEPT !.jitCalls = @ + 1,
                                       !.abandoned = @ \/ (entered /\ how \in {"sigthrow", "ansithrow"})]
    /\ UNCHANGED <<s_Current, s_ShowOptimizationTiers, nInst, perfInfoLog, th, ni, niFile, escaped>>

\* PerfMap::LogImageLoad with PerfMap::LogImage.
LogImageLoad(pFile, how) ==
    /\ Bump("LogImageLoad")
    /\ how \in {"full", "sigthrow"}
    /\ IF s_Current = 0 THEN UNCHANGED <<perfInfoLog, crashed>>
       ELSE IF heap[s_Current].m_FileStream = NULL \/ heap[s_Current].m_ErrorEncountered
       THEN UNCHANGED <<perfInfoLog, crashed>>
       ELSE IF how = "sigthrow" THEN UNCHANGED <<perfInfoLog, crashed>>
       ELSE IF heap[s_Current].m_PerfInfo # OBJ
       THEN crashed' = TRUE /\ UNCHANGED perfInfoLog
       ELSE /\ perfInfoLog' = Append(perfInfoLog, <<pFile, GetNativeImageSignature(pFile)>>)
            /\ UNCHANGED crashed
    /\ hist' = [hist EXCEPT !.jitOnly = FALSE]
    /\ UNCHANGED <<s_Current, s_ShowOptimizationTiers, heap, nInst, mapFile, th, ni, niFile, escaped>>

\* How the Printf of LogStubs goes: it formats, it throws, or (given a null
\* pointer for a %s) it faults.
FmtHows == {"ok", "throw", "fault"}

\* The stubOwner LogStubs passes to Printf: "?" when stubOwner is null, and
\* "?" again when stubType is null (lines 279-286).
StubOwnerArg(stubType, stubOwner) ==
    IF stubOwner = NULL \/ stubType = NULL THEN "?" ELSE stubOwner

\* The stubType LogStubs passes to Printf: the argument as it came.
StubTypeArg(stubType, stubOwner) == stubType

\* PerfMap::LogStubs, first step: the null checks, the defaults, and the read
\* half of ++m_StubsMapped.
LogStubsBegin(t, stubType, stubOwner, pCode, codeSize) ==
    /\ th[t].pc = "idle"
    /\ Bump("LogStubs")
    /\ IF s_Current = 0 \/ heap[s_Current].m_FileStream = NULL
       THEN UNCHANGED th /\ hist' = [hist EXCEPT !.jitOnly = FALSE]
       ELSE /\ th' = [th EXCEPT ![t] =
                        [pc |-> "incr", inst |-> s_Current,
                         reg |-> heap[s_Current].m_StubsMapped,
                         stubType |-> StubTypeArg(stubType, stubOwner),
                         stubOwner |-> StubOwnerArg(stubType, stubOwner),
                         argType |-> stubType, argOwner |-> stubOwner,
                         pCode |-> pCode, codeSize |-> codeSize,
                         line |-> <<>>,
                         entryErr |-> heap[s_Current].m_ErrorEncountered]]
            /\ hist' = [hist EXCEPT !.jitOnly = FALSE,
                                    !.overlapped = @ \/ \E u \in Threads : th[u].pc # "idle"]
    /\ UNCHANGED <<s_Current, s_ShowOptimizationTiers, heap, nInst, mapFile, perfInfoLog,
                   ni, niFile, escaped, crashed>>

\* m_StubsMapped++ in place of ++m_StubsMapped: the value before the increment.
PostIncremented(reg) == reg

\* The value ++m_StubsMapped stores and yields, from the value read.
Incremented(reg) == reg + 1

\* PerfMap::LogStubs, second step: the write half of ++m_StubsMapped, the store
\* of the incremented value into the member.
LogStubsIncrement(t) ==
    /\ th[t].pc = "incr"
    /\ ~crashed
    /\ heap' = [heap EXCEPT ![th[t].inst].m_StubsMapped = Incremented(th[t].reg)]
    /\ th' = [th EXCEPT ![t].pc = "fmt"]
    /\ lastOp' = "LogStubs"
    /\ UNCHANGED <<s_Current, s_ShowOptimizationTiers, nInst, mapFile, perfInfoLog,
                   ni, niFile, escaped, crashed, nCalls, hist>>

\* The value of ++m_StubsMapped handed to Printf. The increment is unsynchronized
\* (a data race), so the build decides: the value the thread computed, kept in
\* a register, or the member read again after the store, which by then may
\* hold what another thread stored.
StubsMappedArg(t, reload) ==
    IF reload THEN heap[th[t].inst].m_StubsMapped ELSE Incremented(th[t].reg)

\* PerfMap::LogStubs, third step: the Printf that builds the line.
LogStubsPrintf(t, fmt, reload) ==
    /\ th[t].pc = "fmt"
    /\ ~crashed
    /\ fmt = "fault" => th[t].stubType = NULL
    /\ hist' = [hist EXCEPT !.allocated = Append(@, <<th[t].inst, StubsMappedArg(t, reload)>>)]
    /\ lastOp' = "LogStubs"
    /\ CASE fmt = "ok" ->
              /\ th' = [th EXCEPT ![t].pc = "write",
                                  ![t].line = StubLine(th[t].pCode, th[t].codeSize,
                                                       StubsMappedArg(t, reload),
                                                       th[t].stubType, th[t].stubOwner)]
              /\ UNCHANGED crashed
         [] fmt = "throw" -> th' = [th EXCEPT ![t] = IdleTh] /\ UNCHANGED crashed
         [] OTHER -> th' = [th EXCEPT ![t] = IdleTh] /\ crashed' = TRUE
    /\ UNCHANGED <<s_Current, s_ShowOptimizationTiers, heap, nInst, mapFile, perfInfoLog,
                   ni, niFile, escaped, nCalls>>

\* PerfMap::LogJITCompiledMethod on a thread, up to the call of WriteLine: the
\* s_Current test, the tier string, the test of LogMethod (line 176) and the
\* line it builds. sig: GetFullMethodInfo or Printf returns ("ok") or throws.
LogJITCompiledMethodBegin(t, pMethod, pCode, codeSize, tierStr, sig) ==
    /\ th[t].pc = "idle"
    /\ Bump("LogJITCompiledMethod")
    /\ sig \in {"ok", "throw"}
    /\ IF s_Current = 0
       THEN UNCHANGED <<th, hist>>
       ELSE LET optimizationTier == IF s_ShowOptimizationTiers THEN tierStr ELSE NULL
                entered == heap[s_Current].m_FileStream # NULL
                               /\ ~heap[s_Current].m_ErrorEncountered
            IN /\ th' = IF entered /\ sig = "ok"
                        THEN [th EXCEPT ![t] =
                                 [IdleTh EXCEPT !.pc = "write", !.inst = s_Current,
                                                !.pCode = pCode, !.codeSize = codeSize,
                                                !.line = MethodLine(FALSE, pCode, codeSize, pMethod,
                                                                    optimizationTier,
                                                                    s_ShowOptimizationTiers),
                                                !.entryErr = heap[s_Current].m_ErrorEncountered]]
                        ELSE th
               /\ hist' = [hist EXCEPT !.jitCalls = @ + 1, !.jitOnly = FALSE,
                                       !.abandoned = @ \/ (entered /\ sig = "throw")]
    /\ UNCHANGED <<s_Current, s_ShowOptimizationTiers, heap, nInst, mapFile, perfInfoLog,
                   ni, niFile, escaped, crashed>>

\* PerfMap::WriteLine on a thread, first step: GetANSI and m_FileStream->Write
\* (lines 148-151), one atomic append of what Write takes.
WriteLineWrite(t, how) ==
    /\ th[t].pc = "write"
    /\ ~crashed
    /\ how \in WriteHows
    /\ lastOp' = "WriteLine"
    /\ IF how = "ansithrow"
       THEN th' = [th EXCEPT ![t] = IdleTh] /\ UNCHANGED <<mapFile, crashed>>
       ELSE IF heap[th[t].inst].m_FileStream # OPEN
       THEN th' = [th EXCEPT ![t] = IdleTh] /\ crashed' = TRUE /\ UNCHANGED mapFile
       ELSE /\ mapFile' = mapFile \o SubSeq(th[t].line, 1, OutCount(th[t].line, how))
            /\ th' = IF OutCount(th[t].line, how) # Len(th[t].line)
                     THEN [th EXCEPT ![t].pc = "latch"]
                     ELSE [th EXCEPT ![t] = IdleTh]
            /\ UNCHANGED crashed
    /\ UNCHANGED <<s_Current, s_ShowOptimizationTiers, heap, nInst, perfInfoLog,
                   ni, niFile, escaped, nCalls, hist>>

\* PerfMap::WriteLine on a thread, second step: inCount != outCount was seen,
\* m_ErrorEncountered = true (lines 153-158).
WriteLineLatch(t) ==
    /\ th[t].pc = "latch"
    /\ ~crashed
    /\ heap' = [heap EXCEPT ![th[t].inst].m_ErrorEncountered = TRUE]
    /\ th' = [th EXCEPT ![t] = IdleTh]
    /\ lastOp' = "WriteLine"
    /\ UNCHANGED <<s_Current, s_ShowOptimizationTiers, nInst, mapFile, perfInfoLog,
                   ni, niFile, escaped, crashed, nCalls, hist>>

\* PerfMap::LogStubs called by one thread with no other call in flight: the
\* steps above in one.
LogStubs(stubType, stubOwner, pCode, codeSize, fmt, how) ==
    /\ AllIdle
    /\ Bump("LogStubs")
    /\ fmt = "fault" => stubType = NULL
    /\ fmt # "ok" => how = "full"
    /\ how \in WriteHows
    /\ IF s_Current = 0 \/ heap[s_Current].m_FileStream = NULL
       THEN UNCHANGED <<heap, mapFile, crashed>> /\ hist' = [hist EXCEPT !.jitOnly = FALSE]
       ELSE LET n == Incremented(heap[s_Current].m_StubsMapped)
                counted == [LiveMap(s_Current) EXCEPT !.obj.m_StubsMapped = n]
                line == StubLine(pCode, codeSize, n, StubTypeArg(stubType, stubOwner),
                                 StubOwnerArg(stubType, stubOwner))
                m == CASE fmt = "ok" -> WriteLine(counted, line, how)
                       [] fmt = "throw" -> counted
                       [] OTHER -> [counted EXCEPT !.crashed = TRUE]
            IN /\ heap' = [heap EXCEPT ![s_Current] = m.obj]
               /\ mapFile' = m.file
               /\ crashed' = m.crashed
               /\ hist' = [hist EXCEPT !.jitOnly = FALSE,
                                       !.allocated = Append(@, <<s_Current, n>>)]
    /\ UNCHANGED <<s_Current, s_ShowOptimizationTiers, nInst, perfInfoLog, th,
                   ni, niFile, escaped>>

\* ------------------------------------------------------- native image perf map
\* Load base of the module image, and the code regions of its methods.
ImageBases == {65536}
HotSizes == {0, 32}
ColdSizes == {0, 16}
\* IJitManager::MethodRegionInfo of a method of the image loaded at base.
RegionInfos(base) == [hotStartAddress : {base + 4096}, hotSize : HotSizes,
                      coldStartAddress : {base + 8192}, coldSize : ColdSizes]

\* The modules handed to LogDataForModule: whether the loaded layout has a
\* ReadyToRun header, the load base, and the methods the iterator yields.
Modules == UNION {[r2r : BOOLEAN, base : {b},
                   methods : UNION {[1 .. n -> RegionInfos(b)] : n \in 1 .. MaxMethods}] :
                  b \in ImageBases}

\* No NativeImagePerfMap object (logged: it has served its LogDataForModule call).
NoNi == [alive |-> FALSE, m_FileStream |-> NULL, m_PerfInfo |-> NULL,
         m_ErrorEncountered |-> FALSE, m_StubsMapped |-> 0, setup |-> "none",
         logged |-> FALSE]

\* The state of an offline (crossgen) process before it makes a map.
InitNi ==
    /\ ni = NoNi
    /\ niFile = <<>>

\* Init: no live map, no native image map.
Init == InitLive /\ InitNi

\* NativeImagePerfMap::NativeImagePerfMap, once in the offline process (it
\* compiles one assembly): PerfMap() nulls both pointers, the path is formatted (Printf may throw, out of the constructor), OpenFile opens it.
NativeImagePerfMapCtor(how) ==
    /\ ni = NoNi
    /\ how \in {"ok", "openfail", "printfthrow"}
    /\ Bump("NativeImagePerfMap")
    /\ IF how = "printfthrow"
       THEN escaped' = TRUE /\ UNCHANGED <<ni, niFile>>
       ELSE /\ ni' = [alive |-> TRUE, m_FileStream |-> IF how = "ok" THEN OPEN ELSE NULL,
                      m_PerfInfo |-> NULL, m_ErrorEncountered |-> FALSE,
                      m_StubsMapped |-> 0, setup |-> how, logged |-> FALSE]
            /\ niFile' = IF how = "ok" THEN <<>> ELSE niFile
            /\ UNCHANGED escaped
    /\ UNCHANGED <<s_Current, s_ShowOptimizationTiers, heap, nInst, mapFile, perfInfoLog,
                   th, crashed, hist>>

\* ~PerfMap on the native image map: the caller deletes the instance.
NativeImagePerfMapDtor ==
    /\ ni.alive
    /\ Bump("~NativeImagePerfMap")
    /\ ni' = [NoNi EXCEPT !.setup = "deleted"]
    /\ UNCHANGED <<s_Current, s_ShowOptimizationTiers, heap, nInst, mapFile, perfInfoLog,
                   th, niFile, escaped, crashed, hist>>

\* How the k-th LogMethod call of one LogDataForModule goes.
HowOf(k, faultAt, faultHow) == IF k = faultAt THEN faultHow ELSE "full"

\* LogPreCompiledMethod with the cold record given the hot start address.
LogPreCompiledMethodColdAtHot(m, showTiers, pMethod, info, baseAddr, optimizationTier, i, faultAt, faultHow) ==
    LET m1 == IF info.hotSize > 0
              THEN LogMethod(m, TRUE, showTiers, pMethod, info.hotStartAddress - baseAddr,
                             info.hotSize, optimizationTier, HowOf(2 * i - 1, faultAt, faultHow))
              ELSE m
    IN IF info.coldSize > 0
       THEN LogMethod(m1, TRUE, showTiers, pMethod, info.hotStartAddress - baseAddr,
                      info.coldSize, optimizationTier, HowOf(2 * i, faultAt, faultHow))
       ELSE m1

\* LogPreCompiledMethod with one record per method: the cold region left out.
LogPreCompiledMethodHotOnly(m, showTiers, pMethod, info, baseAddr, optimizationTier, i, faultAt, faultHow) ==
    IF info.hotSize > 0
    THEN LogMethod(m, TRUE, showTiers, pMethod, info.hotStartAddress - baseAddr,
                   info.hotSize, optimizationTier, HowOf(2 * i - 1, faultAt, faultHow))
    ELSE m

\* NativeImagePerfMap::LogPreCompiledMethod for the i-th method of the table.
LogPreCompiledMethod(m, showTiers, pMethod, info, baseAddr, optimizationTier, i, faultAt, faultHow) ==
    LET m1 == IF info.hotSize > 0
              THEN LogMethod(m, TRUE, showTiers, pMethod, info.hotStartAddress - baseAddr,
                             info.hotSize, optimizationTier, HowOf(2 * i - 1, faultAt, faultHow))
              ELSE m
    IN IF info.coldSize > 0
       THEN LogMethod(m1, TRUE, showTiers, pMethod, info.coldStartAddress - baseAddr,
                      info.coldSize, optimizationTier, HowOf(2 * i, faultAt, faultHow))
       ELSE m1

RECURSIVE IterateMethods(_, _, _, _, _, _, _)
\* while (mi.Next()) LogPreCompiledMethod(...): methods i .. Len(methods).
IterateMethods(m, showTiers, pModule, optimizationTier, i, faultAt, faultHow) ==
    IF i > Len(pModule.methods) THEN m
    ELSE IterateMethods(
             LogPreCompiledMethod(m, showTiers, "M.F()", pModule.methods[i], pModule.base,
                                  optimizationTier, i, faultAt, faultHow),
             showTiers, pModule, optimizationTier, i + 1, faultAt, faultHow)

\* The ReadyToRun loop passing nullptr as the legacy loop does.
ModuleTierNone(pModule) == NULL

\* The tier argument of the two loops of LogDataForModule.
ModuleTier(pModule) == IF pModule.r2r THEN "ReadyToRun" ELSE NULL

\* NativeImagePerfMap::LogDataForModule, called once on the map made for the
\* module's assembly. At most one of its LogMethod calls fails: the faultAt-th.
LogDataForModule(pModule, faultAt, faultHow) ==
    /\ ni.alive
    /\ faultAt \in 0 .. 2 * Len(pModule.methods)
    /\ faultHow \in {"sigthrow", "short"}
    /\ faultAt = 0 => faultHow = "sigthrow"
    /\ ~ni.logged
    /\ Bump("LogDataForModule")
    /\ LET m == IterateMethods([obj |-> ni, file |-> niFile, crashed |-> crashed],
                               s_ShowOptimizationTiers, pModule, ModuleTier(pModule),
                               1, faultAt, faultHow)
       IN /\ ni' = [m.obj EXCEPT !.logged = TRUE]
          /\ niFile' = m.file
          /\ crashed' = m.crashed
    /\ hist' = [hist EXCEPT !.call = [pModule |-> pModule, faultAt |-> faultAt,
                                      faultHow |-> faultHow]]
    /\ UNCHANGED <<s_Current, s_ShowOptimizationTiers, heap, nInst, mapFile, perfInfoLog,
                   th, escaped>>

\* ------------------------------------------------------------- specifications
\* The runtime process with its events arriving one at a time.
Next ==
    \/ InitializeDisabled
    \/ \E how \in CtorHows : InitializeThrows(how)
    \/ \E showTiers \in BOOLEAN, how \in CtorHows, u1 \in Indeterminate, u2 \in Indeterminate :
           InitializeEnabled(showTiers, how, u1, u2)
    \/ \E ub \in {"fault", "pass"} : Destroy(ub)
    \/ \E pMethod \in Methods, pCode \in CodeAddrs, codeSize \in CodeSizes,
          tierStr \in TierStrs, how \in LogHows :
           LogJITCompiledMethod(pMethod, pCode, codeSize, tierStr, how)
    \/ \E pFile \in Images, how \in LogHows : LogImageLoad(pFile, how)
    \/ \E stubType \in StubTypes, stubOwner \in StubOwners, pCode \in CodeAddrs,
          codeSize \in CodeSizes, fmt \in FmtHows, how \in WriteHows :
           LogStubs(stubType, stubOwner, pCode, codeSize, fmt, how)

Spec == Init /\ [][Next]_vars

\* The runtime process with threads racing through LogStubs, between a
\* single-threaded startup and shutdown.
NextMT ==
    \/ \E showTiers \in {FALSE}, how \in {"ok"}, u1 \in {NULL}, u2 \in {NULL} :
           InitializeEnabled(showTiers, how, u1, u2)
    \/ \E ub \in {"pass"} : Destroy(ub)
    \/ \E t \in Threads, stubType \in {"DelegateStub"}, stubOwner \in StubOwners,
          pCode \in CodeAddrs, codeSize \in CodeSizes :
           LogStubsBegin(t, stubType, stubOwner, pCode, codeSize)
    \/ \E t \in Threads : LogStubsIncrement(t)
    \/ \E t \in Threads, fmt \in {"ok", "throw"}, reload \in BOOLEAN : LogStubsPrintf(t, fmt, reload)
    \/ \E t \in Threads, how \in WriteHows : WriteLineWrite(t, how)
    \/ \E t \in Threads : WriteLineLatch(t)

SpecMT == Init /\ [][NextMT]_vars

\* The offline process: the native image map, with the process-wide flag set
\* by an Initialize at startup, before the map is made.
NextNI ==
    \/ \E showTiers \in BOOLEAN, how \in {"ok"}, u1 \in {NULL}, u2 \in {NULL} :
           ni = NoNi /\ InitializeEnabled(showTiers, how, u1, u2)
    \/ \E how \in CtorHows : NativeImagePerfMapCtor(how)
    \/ NativeImagePerfMapDtor
    \/ \E pModule \in Modules, faultAt \in 0 .. 2 * MaxMethods, faultHow \in LogHows :
           LogDataForModule(pModule, faultAt, faultHow)

SpecNI == Init /\ [][NextNI]_vars

\* The runtime process with a live map whose file opened, and its logging
\* threads: LogStubs calls in flight on several threads while methods are
\* compiled and logged, every Write either complete or short.
NextLog ==
    \/ \E showTiers \in {FALSE}, how \in {"ok"}, u1 \in {NULL}, u2 \in {NULL} :
           InitializeEnabled(showTiers, how, u1, u2)
    \/ \E t \in Threads, stubType \in {"DelegateStub"}, stubOwner \in {"MyClass"},
          pCode \in CodeAddrs, codeSize \in CodeSizes :
           LogStubsBegin(t, stubType, stubOwner, pCode, codeSize)
    \/ \E t \in Threads : LogStubsIncrement(t)
    \/ \E t \in Threads, fmt \in {"ok"}, reload \in BOOLEAN : LogStubsPrintf(t, fmt, reload)
    \/ \E t \in Threads, pMethod \in Methods, pCode \in CodeAddrs, codeSize \in CodeSizes,
          tierStr \in {NULL}, sig \in {"ok"} :
           LogJITCompiledMethodBegin(t, pMethod, pCode, codeSize, tierStr, sig)
    \/ \E t \in Threads, how \in {"full", "short"} : WriteLineWrite(t, how)
    \/ \E t \in Threads : WriteLineLatch(t)

SpecLog == Init /\ [][NextLog]_vars

\* ----------------------------------------------------------------- properties
LogOps == {"LogJITCompiledMethod", "LogStubs", "LogImageLoad"}

\* The values ++m_StubsMapped yielded on instance i, in order.
AllocatedBy(i) == SelectSeq(hist.allocated, LAMBDA p : p[1] = i)

\* What a step appended to a file that it did not otherwise change.
Appended(before, after) == SubSeq(after, Len(before) + 1, Len(after))

IsPrefix(before, after) ==
    Len(before) <= Len(after) /\ SubSeq(after, 1, Len(before)) = before

\* C1: once a WriteLine has seen a short write on the live map (the latch is
\* set), no later LogJITCompiledMethod, LogStubs or LogImageLoad call adds a
\* byte to the map file.
C1_NoBytesAfterShortWrite ==
    [][(/\ s_Current # 0
        /\ heap[s_Current].m_FileStream = OPEN
        /\ heap[s_Current].m_ErrorEncountered
        /\ lastOp' \in LogOps)
       => mapFile' = mapFile]_vars

\* C2: the counter values that concurrent LogStubs calls on one live map embed
\* in their labels are exactly 1..N for N calls: none twice, none skipped.
C2_CountersArePermutation ==
    \A i \in InstIds :
        {AllocatedBy(i)[k][2] : k \in 1 .. Len(AllocatedBy(i))} = 1 .. Len(AllocatedBy(i))

\* C3: while the singleton is absent, LogJITCompiledMethod, LogStubs and
\* LogImageLoad write nothing, change no map state and report no error; Destroy
\* leaves the singleton absent, and it stays absent until an Initialize.
C3_AbsentSingletonNoOps ==
    [][/\ (s_Current = 0 /\ lastOp' \in LogOps)
          => UNCHANGED <<s_Current, s_ShowOptimizationTiers, heap, nInst, mapFile,
                         perfInfoLog, th, escaped, crashed>>
       /\ (lastOp' = "Destroy" /\ ~crashed') => s_Current' = 0
       /\ (s_Current = 0 /\ lastOp' # "Initialize") => s_Current' = 0]_vars

\* C3 witness: after a Destroy, with lines in the file, a LogStubs call has run
\* on the absent singleton.
C3_Witness ==
    s_Current = 0 /\ hist.destroyed /\ lastOp = "LogStubs" /\ Lines(mapFile) > 0

\* C4 as claimed: on an initialized live map (its temp path resolved), while
\* no call has failed, the lines of the map file number the
\* LogJITCompiledMethod calls made.
C4_LinesEqualCalls ==
    (/\ s_Current # 0
     /\ hist.jitOnly
     /\ heap[s_Current].setup # "tempfail"
     /\ ~heap[s_Current].m_ErrorEncountered
     /\ ~hist.abandoned
     /\ ~crashed)
    => Lines(mapFile) = hist.jitCalls

\* C4 amended: on an initialized live map whose file was opened, while no call
\* has failed (no short write, no swallowed exception), the map file consists of
\* exactly as many newline-terminated lines as LogJITCompiledMethod calls were made.
C4_LinesEqualCallsWhenOpen ==
    (/\ s_Current # 0
     /\ hist.jitOnly
     /\ heap[s_Current].m_FileStream = OPEN
     /\ ~heap[s_Current].m_ErrorEncountered
     /\ ~hist.abandoned)
    => /\ Lines(mapFile) = hist.jitCalls
       /\ mapFile # <<>> => mapFile[Len(mapFile)] = "\n"

\* C4 witness: three calls on an open live map, none failed, tiers shown.
C4_Witness ==
    /\ s_Current # 0
    /\ hist.jitOnly
    /\ heap[s_Current].m_FileStream = OPEN
    /\ ~heap[s_Current].m_ErrorEncountered
    /\ ~hist.abandoned
    /\ s_ShowOptimizationTiers
    /\ hist.jitCalls = 3
    /\ Lines(mapFile) = 3

\* ---- reading a map file back: lines, fields, numbers
RECURSIVE SplitLines(_)
\* The newline-terminated lines of a file, each without its newline.
SplitLines(file) ==
    IF \A i \in 1 .. Len(file) : file[i] # "\n" THEN <<>>
    ELSE LET nl == CHOOSE i \in 1 .. Len(file) :
                       file[i] = "\n" /\ \A j \in 1 .. i - 1 : file[j] # "\n"
         IN <<SubSeq(file, 1, nl - 1)>> \o SplitLines(SubSeq(file, nl + 1, Len(file)))

\* The index of the k-th blank of a line (0 when k = 0).
BlankAt(line, k) ==
    IF k = 0 THEN 0
    ELSE CHOOSE i \in 1 .. Len(line) :
             line[i] = " " /\ Cardinality({j \in 1 .. i : line[j] = " "}) = k

\* The k-th blank-separated field of a line, for k = 1, 2.
Field(line, k) == SubSeq(line, BlankAt(line, k - 1) + 1, BlankAt(line, k) - 1)

DigitVal(d) == CHOOSE v \in 0 .. 15 : HexDigits[v + 1] = d

RECURSIVE HexVal(_)
\* The number a sequence of hexadecimal digits denotes.
HexVal(digits) ==
    IF digits = <<>> THEN 0
    ELSE 16 * HexVal(SubSeq(digits, 1, Len(digits) - 1)) + DigitVal(digits[Len(digits)])

\* The <<address, size>> pairs of the records of a file.
Records(file) ==
    [k \in 1 .. Len(SplitLines(file)) |->
        <<HexVal(Field(SplitLines(file)[k], 1)), HexVal(Field(SplitLines(file)[k], 2))>>]

RECURSIVE RegionsOf(_, _)
\* What the claim expects of a method table: per method, <<hot_start - base,
\* H>> if H > 0, then <<cold_start - base, C>> if C > 0.
RegionsOf(methods, base) ==
    IF methods = <<>> THEN <<>>
    ELSE LET r == Head(methods)
         IN (IF r.hotSize > 0 THEN <<<<r.hotStartAddress - base, r.hotSize>>>> ELSE <<>>)
            \o (IF r.coldSize > 0 THEN <<<<r.coldStartAddress - base, r.coldSize>>>> ELSE <<>>)
            \o RegionsOf(Tail(methods), base)

\* The last LogDataForModule call had one of its LogMethod calls fail.
FaultHit(call) ==
    /\ call.faultAt \in 1 .. 2 * Len(call.pModule.methods)
    /\ LET r == call.pModule.methods[(call.faultAt + 1) \div 2]
       IN IF call.faultAt % 2 = 1 THEN r.hotSize > 0 ELSE r.coldSize > 0

\* C5 as claimed: with the file open and no write failure, LogPreCompiledMethod
\* emits for every method one record per non-empty region, hot before cold,
\* with address region start - base and the region's size.
C5_RecordPerNonEmptyRegion ==
    [][(/\ lastOp' = "LogDataForModule"
        /\ ni.m_FileStream = OPEN
        /\ ~ni.m_ErrorEncountered
        /\ ~(FaultHit(hist'.call) /\ hist'.call.faultHow = "short"))
       => /\ IsPrefix(niFile, niFile')
          /\ Records(Appended(niFile, niFile'))
                 = RegionsOf(hist'.call.pModule.methods, hist'.call.pModule.base)]_vars

\* C5 amended: with the file open, no write failure, and the signature and
\* the line of every record resolved and formatted without exception, there is
\* one record per non-empty region, hot before cold, with address region start
\* - base and the region's size.
C5_RecordPerNonEmptyRegionNoFault ==
    [][(/\ lastOp' = "LogDataForModule"
        /\ ni.m_FileStream = OPEN
        /\ ~ni.m_ErrorEncountered
        /\ ~FaultHit(hist'.call))
       => /\ IsPrefix(niFile, niFile')
          /\ Records(Appended(niFile, niFile'))
                 = RegionsOf(hist'.call.pModule.methods, hist'.call.pModule.base)
          /\ niFile' # <<>> => niFile'[Len(niFile')] = "\n"]_vars

\* C5 witness: a module with a hot+cold method and a hot-only method was
\* logged without failure: three records.
C5_Witness ==
    /\ lastOp = "LogDataForModule"
    /\ ni.m_FileStream = OPEN
    /\ ~ni.m_ErrorEncountered
    /\ ~FaultHit(hist.call)
    /\ Len(hist.call.pModule.methods) = 2
    /\ hist.call.pModule.methods[1].hotSize > 0
    /\ hist.call.pModule.methods[1].coldSize > 0
    /\ hist.call.pModule.methods[2].hotSize > 0
    /\ hist.call.pModule.methods[2].coldSize = 0
    /\ Records(niFile) = <<<<4096, 32>>, <<8192, 16>>, <<4096, 32>>>>

\* The record the claim expects of a LogStubs call: a null kind and a null
\* owner each replaced by "?", a supplied one unchanged.
ExpectedStubRecord(pCode, codeSize, n, stubType, stubOwner) ==
    Hex(pCode) \o <<" ">> \o Hex(codeSize) \o <<" ", "stub<">> \o Dec(n)
        \o <<">", " ", IF stubType = NULL THEN "?" ELSE stubType,
              "<", IF stubOwner = NULL THEN "?" ELSE stubOwner, ">", "\n">>

\* C6: a LogStubs call on an open live map, its line formatted and written in
\* full, appends exactly one record stub<N> <kind><<owner>> in which a null
\* kind is "?" and a null owner is "?", independently, and supplied ones are
\* unchanged.
C6_NullKindOwnerDefault ==
    [][\A stubType \in StubTypes, stubOwner \in StubOwners,
          pCode \in CodeAddrs, codeSize \in CodeSizes :
           (/\ s_Current # 0
            /\ heap[s_Current].m_FileStream = OPEN
            /\ LogStubs(stubType, stubOwner, pCode, codeSize, "ok", "full"))
           => mapFile' = mapFile \o ExpectedStubRecord(pCode, codeSize,
                                        heap'[s_Current].m_StubsMapped, stubType, stubOwner)]_vars

\* C7: no exception ever leaves a public entry point.
C7_NoFailureEscapes == ~escaped

\* C8: a live map whose temp path or file open failed has a null stream for
\* as long as it lives, and a live map has a null stream only if its setup failed.
C8_SetupFailureNullStream ==
    \A i \in InstIds :
        heap[i].alive =>
            /\ heap[i].setup \in {"tempfail", "openfail"} => heap[i].m_FileStream = NULL
            /\ heap[i].m_FileStream = NULL => heap[i].setup \in {"tempfail", "openfail"}

\* C9: every PerfMap that Initialize made and Destroy has not released is the
\* one s_Current refers to.
C9_AtMostOneLiveMap == \A i \in InstIds : heap[i].alive => i = s_Current

\* C10 as claimed: in a run that never had two live maps at once, the values
\* successive LogStubs calls allocate are 1, 2, 3, ... over the whole run,
\* across error latches and across Destroy and a new Initialize.
C10_CountersIncreaseOverProcess ==
    (\A i \in InstIds : heap[i].alive => i = s_Current)
    => \A k \in 1 .. Len(hist.allocated) : hist.allocated[k][2] = k

\* C10 amended: the values successive LogStubs calls allocate on one live map
\* instance are 1, 2, 3, ..., also once its error latch is set; the instance
\* a later Initialize makes starts again at 1.
C10_CountersIncreasePerInstance ==
    \A i \in InstIds :
        /\ \A k \in 1 .. Len(AllocatedBy(i)) : AllocatedBy(i)[k][2] = k
        /\ heap[i].alive => heap[i].m_StubsMapped = Len(AllocatedBy(i))

\* C10 witness: a live map has allocated 1 and 2, the second after its error
\* latch was set by the short write of the first.
C10_Witness ==
    /\ s_Current # 0
    /\ heap[s_Current].m_StubsMapped = 2
    /\ heap[s_Current].m_ErrorEncountered
    /\ AllocatedBy(s_Current) = <<<<s_Current, 1>>, <<s_Current, 2>>>>
    /\ Lines(mapFile) = 1
    /\ mapFile[Len(mapFile)] = "\n"

\* The index of the label token of a line: the one after its second blank.
LabelAt(line) == BlankAt(line, 2) + 1

\* C11: a LogJITCompiledMethod call that writes its line in full on an open,
\* unlatched live map appends exactly one line <address> <size-hex> <label>,
\* followed by [<tier>] and a newline exactly when a tier string was supplied
\* and the show-tiers flag is set, and by a bare newline otherwise; for
\* (0x1000, 0x20, "M.F()") that is "1000 20 M.F()" with the flag off and
\* "1000 20 M.F()[Tier1]" with the flag on and tier "Tier1"; with the flag off
\* no line carries a tier.
C11_MethodLineFormat ==
    [][\A pMethod \in Methods, pCode \in CodeAddrs, codeSize \in CodeSizes, tierStr \in TierStrs :
           (/\ s_Current # 0
            /\ heap[s_Current].m_FileStream = OPEN
            /\ ~heap[s_Current].m_ErrorEncountered
            /\ LogJITCompiledMethod(pMethod, pCode, codeSize, tierStr, "full"))
           => LET line == Appended(mapFile, mapFile')
                  tagged == tierStr # NULL /\ s_ShowOptimizationTiers
              IN /\ IsPrefix(mapFile, mapFile')
                 /\ Lines(line) = 1
                 /\ line[Len(line)] = "\n"
                 /\ HexVal(Field(line, 1)) = pCode
                 /\ HexVal(Field(line, 2)) = codeSize
                 /\ line[LabelAt(line)] = pMethod
                 /\ SubSeq(line, LabelAt(line) + 1, Len(line))
                        = IF tagged THEN <<"[", tierStr, "]", "\n">> ELSE <<"\n">>
                 /\ (pCode = 4096 /\ codeSize = 32 /\ pMethod = "M.F()" /\ ~s_ShowOptimizationTiers)
                        => line = <<"1", "0", "0", "0", " ", "2", "0", " ", "M.F()", "\n">>
                 /\ (pCode = 4096 /\ codeSize = 32 /\ pMethod = "M.F()"
                        /\ s_ShowOptimizationTiers /\ tierStr = "Tier1")
                        => line = <<"1", "0", "0", "0", " ", "2", "0", " ", "M.F()",
                                    "[", "Tier1", "]", "\n">>]_vars

\* C11 witness: a live map with tiers shown holds an untagged line (no tier
\* string supplied) and a line tagged [Tier1].
C11_Witness ==
    /\ s_Current # 0
    /\ s_ShowOptimizationTiers
    /\ lastOp = "LogJITCompiledMethod"
    /\ mapFile = <<"1", "0", "0", "0", " ", "2", "0", " ", "M.F()", "\n",
                   "1", "0", "0", "0", " ", "2", "0", " ", "M.F()", "[", "Tier1", "]", "\n">>

\* C12: Destroy with no singleton changes nothing; Destroy on a live map whose
\* file never opened releases the instance without a fault or an exception and
\* leaves the singleton absent; so a second Destroy finds the singleton absent
\* and changes nothing, and nothing is released twice.
C12_DestroyIdempotent ==
    [][lastOp' = "Destroy"
       => /\ s_Current = 0
              => UNCHANGED <<s_Current, s_ShowOptimizationTiers, heap, nInst, mapFile,
                             perfInfoLog, th, escaped, crashed>>
          /\ (s_Current # 0 /\ heap[s_Current].m_FileStream # OPEN)
              => /\ ~crashed'
                 /\ ~escaped'
                 /\ s_Current' = 0
                 /\ heap' = [heap EXCEPT ![s_Current] = NoInst]]_vars

\* C13: once m_ErrorEncountered is set on an instance, then for as long as the
\* instance exists the latch stays set and m_FileStream stays the open stream
\* it was; the instance and its stream go away only in Destroy.
C13_LatchAbsorbing ==
    [][\A i \in InstIds :
           (heap[i].alive /\ heap[i].m_ErrorEncountered)
           => /\ heap[i].m_FileStream = OPEN
              /\ heap'[i].alive
                    => /\ heap'[i].m_ErrorEncountered
                       /\ heap'[i].m_FileStream = heap[i].m_FileStream
              /\ ~heap'[i].alive => lastOp' = "Destroy"]_vars

\* C13 witness: the first LogJITCompiledMethod call of a live map was written
\* short, and a second call has been made on the latched map.
C13_Witness ==
    /\ s_Current # 0
    /\ heap[s_Current].m_ErrorEncountered
    /\ heap[s_Current].m_FileStream = OPEN
    /\ hist.jitOnly
    /\ ~hist.abandoned
    /\ hist.jitCalls = 2
    /\ Lines(mapFile) = 0
    /\ mapFile # <<>>

\* C14: every LogImageLoad call made while a live map exists finds its PerfInfo
\* constructed and hands the image and its signature to PerfInfo::LogImage,
\* whether the map file is open or not and whether the error latch is set or not.
C14_ImageLoadAlwaysDelegates ==
    [][\A pFile \in Images :
           (s_Current # 0 /\ LogImageLoad(pFile, "full"))
           => /\ heap[s_Current].m_PerfInfo = OBJ
              /\ perfInfoLog' = Append(perfInfoLog, <<pFile, GetNativeImageSignature(pFile)>>)]_vars

\* What follows the label in a line (without its newline).
AfterLabel(line) == SubSeq(line, LabelAt(line) + 1, Len(line))

\* The lines one LogDataForModule step appended to the native image map.
LinesAppended(before, after) == SplitLines(Appended(before, after))

\* C15 as claimed: every record LogDataForModule emits for a module with a
\* ReadyToRun header carries the marker [ReadyToRun] in the tier position,
\* whatever the show-tiers flag.
C15_ReadyToRunTagged ==
    [][(lastOp' = "LogDataForModule" /\ hist'.call.pModule.r2r)
       => \A k \in 1 .. Len(LinesAppended(niFile, niFile')) :
              AfterLabel(LinesAppended(niFile, niFile')[k]) = <<"[", "ReadyToRun", "]">>]_vars

\* C15 amended: every record LogDataForModule emits for a module with a
\* ReadyToRun header carries the marker [ReadyToRun] in the tier position when
\* the show-tiers flag is set, and nothing after its label when it is not.
C15_ReadyToRunTaggedWhenShown ==
    [][(lastOp' = "LogDataForModule" /\ hist'.call.pModule.r2r)
       => \A k \in 1 .. Len(LinesAppended(niFile, niFile')) :
              AfterLabel(LinesAppended(niFile, niFile')[k])
                  = IF s_ShowOptimizationTiers THEN <<"[", "ReadyToRun", "]">> ELSE <<>>]_vars

\* C15 witness: with the flag set, a ReadyToRun module of two methods was
\* logged without failure and its three records are tagged.
C15_Witness ==
    /\ lastOp = "LogDataForModule"
    /\ hist.call.pModule.r2r
    /\ s_ShowOptimizationTiers
    /\ ~ni.m_ErrorEncountered
    /\ Len(SplitLines(niFile)) = 3
    /\ \A k \in 1 .. 3 : AfterLabel(SplitLines(niFile)[k]) = <<"[", "ReadyToRun", "]">>

\* C16 as claimed: LogDataForModule on a module without a ReadyToRun header,
\* the file open and no LogMethod call failing, appends exactly one record per
\* method of the table, none with a tier tag, whatever the hot and cold sizes.
C16_LegacyOneRecordPerMethod ==
    [][(/\ lastOp' = "LogDataForModule"
        /\ ~hist'.call.pModule.r2r
        /\ ni.m_FileStream = OPEN
        /\ ~ni.m_ErrorEncountered
        /\ ~FaultHit(hist'.call))
       => /\ Len(LinesAppended(niFile, niFile')) = Len(hist'.call.pModule.methods)
          /\ \A k \in 1 .. Len(LinesAppended(niFile, niFile')) :
                 AfterLabel(LinesAppended(niFile, niFile')[k]) = <<>>]_vars

\* C16 amended: LogDataForModule on a module without a ReadyToRun header, the
\* file open and no LogMethod call failing, iterates the method table once and
\* appends for every method one record per non-empty code region (none, one
\* or two), none with a tier tag, whatever the show-tiers flag.
C16_LegacyRecordPerRegionNoTag ==
    [][(/\ lastOp' = "LogDataForModule"
        /\ ~hist'.call.pModule.r2r
        /\ ni.m_FileStream = OPEN
        /\ ~ni.m_ErrorEncountered
        /\ ~FaultHit(hist'.call))
       => /\ Len(LinesAppended(niFile, niFile'))
                 = Cardinality({i \in 1 .. Len(hist'.call.pModule.methods) :
                                    hist'.call.pModule.methods[i].hotSize > 0})
                   + Cardinality({i \in 1 .. Len(hist'.call.pModule.methods) :
                                      hist'.call.pModule.methods[i].coldSize > 0})
          /\ \A k \in 1 .. Len(LinesAppended(niFile, niFile')) :
                 AfterLabel(LinesAppended(niFile, niFile')[k]) = <<>>]_vars

\* C16 witness: with the flag set, a legacy module whose first method has a
\* hot and a cold region and whose second has none was logged: two untagged
\* records.
C16_Witness ==
    /\ lastOp = "LogDataForModule"
    /\ ~hist.call.pModule.r2r
    /\ s_ShowOptimizationTiers
    /\ ~FaultHit(hist.call)
    /\ Len(hist.call.pModule.methods) = 2
    /\ hist.call.pModule.methods[1].hotSize > 0
    /\ hist.call.pModule.methods[1].coldSize > 0
    /\ hist.call.pModule.methods[2].hotSize = 0
    /\ hist.call.pModule.methods[2].coldSize = 0
    /\ Len(SplitLines(niFile)) = 2
    /\ \A k \in 1 .. 2 : AfterLabel(SplitLines(niFile)[k]) = <<>>

DecDigits == {"0", "1", "2", "3", "4", "5", "6", "7", "8", "9"}

\* A whole record of the live map: address, size and label, newline-terminated;
\* the label a method signature or stub<N> kind<owner>.
WholeRecord(line) ==
    LET n == Len(line)
        lab == LabelAt(line)
    IN /\ n > 0
       /\ line[n] = "\n"
       /\ Lines(line) = 1
       /\ Cardinality({i \in 1 .. n : line[i] = " "}) >= 2
       /\ HexVal(Field(line, 1)) \in CodeAddrs
       /\ HexVal(Field(line, 2)) \in CodeSizes
       /\ \/ line[lab] \in Methods /\ n = lab + 1
          \/ /\ line[lab] = "stub<"
             /\ n >= lab + 8
             /\ \A i \in lab + 1 .. n - 7 : line[i] \in DecDigits
             /\ SubSeq(line, n - 6, n - 5) = <<">", " ">>
             /\ line[n - 4] \in {"DelegateStub", "(null)"}
             /\ line[n - 3] = "<"
             /\ line[n - 2] \in {"MyClass", "?"}
             /\ SubSeq(line, n - 1, n) = <<">", "\n">>

\* The position of the last newline of a file before position i (0 if none).
PrevNewline(file, i) ==
    IF \A j \in 1 .. i - 1 : file[j] # "\n" THEN 0
    ELSE CHOOSE j \in 1 .. i - 1 : file[j] = "\n" /\ \A k \in j + 1 .. i - 1 : file[k] # "\n"

\* A file that is a concatenation of whole records.
WholeRecordsOnly(file) ==
    /\ file # <<>> => file[Len(file)] = "\n"
    /\ \A i \in 1 .. Len(file) :
           file[i] = "\n"
           => LET line == SubSeq(file, PrevNewline(file, i) + 1, i)
              IN WholeRecord(line)

\* C17: while the live map has seen no short write (its latch is clear and no
\* thread stands between a short Write and the latch), every step of its
\* logging threads leaves the map file alone or appends one whole record to
\* it; a call that completes its Write appends its whole line at once; so the
\* file is always a concatenation of whole records, none split by another.
C17_WholeRecordsUnderInterleaving ==
    [][(/\ s_Current # 0
        /\ s_Current' = s_Current
        /\ ~heap'[s_Current].m_ErrorEncountered
        /\ \A t \in Threads : th'[t].pc # "latch")
       => /\ \A t \in Threads :
                 (th[t].pc = "write" /\ th'[t].pc = "idle") => mapFile' = mapFile \o th[t].line
          /\ \/ mapFile' = mapFile
             \/ /\ IsPrefix(mapFile, mapFile')
                /\ LET line == Appended(mapFile, mapFile') IN WholeRecord(line)
                /\ WholeRecordsOnly(mapFile')]_vars

\* C17 witness: two LogStubs calls were in flight at once while a method was
\* logged; all three have completed and the file holds three whole records.
C17_Witness ==
    /\ s_Current # 0
    /\ ~heap[s_Current].m_ErrorEncountered
    /\ hist.overlapped
    /\ AllIdle
    /\ hist.jitCalls = 1
    /\ Len(AllocatedBy(s_Current)) = 2
    /\ Lines(mapFile) = 3
    /\ \E k \in 1 .. 3 : SplitLines(mapFile)[k][LabelAt(SplitLines(mapFile)[k])] \in Methods

\* C18: a LogStubs call made with no live map, or on a live map whose file is
\* not open, leaves the stub counter (and the map) as it was; a LogStubs call
\* on an open file raises the counter by exactly one, latch set or not.
C18_StubCounterConsumption ==
    [][lastOp' = "LogStubs"
       => IF s_Current = 0 THEN heap' = heap
          ELSE IF heap[s_Current].m_FileStream # OPEN
          THEN heap'[s_Current].m_StubsMapped = heap[s_Current].m_StubsMapped
          ELSE heap'[s_Current].m_StubsMapped = heap[s_Current].m_StubsMapped + 1]_vars

\* C19: the show-tiers setting in force is the one the Initialize that made
\* the current live map read: that Initialize leaves the flag at the value it
\* read, nothing but an Initialize changes it, and a LogJITCompiledMethod call
\* appends a tier tag only with the flag set; so after Destroy and an
\* Initialize that read the setting as disabled, lines carry no tier tag.
C19_TierFlagFromLatestInitialize ==
    [][/\ \A showTiers \in BOOLEAN, how \in CtorHows, u1 \in Indeterminate, u2 \in Indeterminate :
              InitializeEnabled(showTiers, how, u1, u2) => s_ShowOptimizationTiers' = showTiers
       /\ lastOp' # "Initialize" => s_ShowOptimizationTiers' = s_ShowOptimizationTiers
       /\ (/\ lastOp' = "LogJITCompiledMethod"
           /\ IsPrefix(mapFile, mapFile')
           /\ \E k \in 1 .. Len(Appended(mapFile, mapFile')) : Appended(mapFile, mapFile')[k] = "[")
          => s_ShowOptimizationTiers]_vars

\* C20: whenever LogJITCompiledMethod, LogStubs or LogImageLoad runs on a live
\* map, m_FileStream is null (the call returns before WriteLine) or a valid
\* open stream, never an unassigned pointer, also after a temp-path failure,
\* a failed OpenFile or a latched error; and a LogImageLoad call that gets
\* past the stream and latch test finds m_PerfInfo constructed.
C20_WriteLineOnlyOnOpenStream ==
    [][(lastOp' \in LogOps /\ s_Current # 0)
       => /\ heap[s_Current].m_FileStream \in {NULL, OPEN}
          /\ (/\ lastOp' = "LogImageLoad"
              /\ heap[s_Current].m_FileStream # NULL
              /\ ~heap[s_Current].m_ErrorEncountered)
             => heap[s_Current].m_PerfInfo = OBJ]_vars

====
